---- MODULE Spec2Model ----
(***************************************************************************)
(* Model of the sysext reconciliation engine (src/src/engine/sysext.rs).   *)
(*                                                                         *)
(* The host is the set of image files in the extension directories, the    *)
(* live release directory /usr/lib/extension-release.d, the snapshot file  *)
(* (CACHE_PATH) and the kernel resources (loop devices, mounts at          *)
(* /mnt/tmp).  install_sysexts is modelled step by step, one action per    *)
(* external effect, so that partial failures are visible.                  *)
(*                                                                         *)
(* Option<T> values are sequences: None is << >>, Some(x) is <<x>>.        *)
(* Images live in /var/lib/extensions, the one directory the engine        *)
(* writes to.                                                              *)
(* The fields id, sysext_scope and architecture of Extension are copied    *)
(* from the descriptor and never read by the engine; they are left out.    *)
(***************************************************************************)
EXTENDS Integers, Sequences, FiniteSets, TLC

\* ---------------------------------------------------------------- bounds
MaxDesired == 2      \* total number of entries of the add and remove lists
MaxHeld == 1         \* loop devices the engine may leave attached

\* ------------------------------------------------------------ value sets
None == << >>
Some(x) == <<x>>

Names == {"a", "b"}
SysextIds == {None, Some("X")}
VersionIds == {"1", "2"}

\* The release descriptor of an image file: what get_extension_release reads.
Img(n, i, v) == [name |-> n, sysext_id |-> i, sysext_version_id |-> v]

\* The image files of the model: two versions of X named a, X under another
\* name, and two images without SYSEXT_ID.
Images ==
    {Img("a", Some("X"), "1"), Img("a", Some("X"), "2"), Img("b", Some("X"), "1"),
     Img("a", None, "1"), Img("b", None, "1")}

\* Where install_sysexts places the image of an extension.
ManagedPath(name) == "/var/lib/extensions/" \o name \o ".raw"
Paths == {ManagedPath(n) : n \in Names}

Range(s) == {s[j] : j \in DOMAIN s}
SeqsUpTo(S, n) == UNION {[1..k -> S] : k \in 0..n}

VARIABLES
    sysexts,      \* host_config.sysexts: None or Some([add, remove])
    files,        \* image file at each path of the extension directories
    live,         \* release file per name in /usr/lib/extension-release.d
    cache,        \* content of CACHE_PATH: None when the file does not exist
    loops,        \* loop devices attached by the engine and not detached
    mounts,       \* mounts stacked on /mnt/tmp
    pc,           \* position in install_sysexts
    existing,     \* the snapshot loaded at the start of the run
    to_merge,     \* merge plan built by the diff
    to_unmerge,   \* unmerge plan built by the diff
    idx,          \* index of the next element of the loop at pc
    error,        \* "none", or the step whose error the run returned
    lastExtract,  \* exit path of the last identity extraction of the run
    torn,         \* CACHE_PATH was truncated by fs::write and not yet fully written
    calls,        \* external calls made by the current run, per kind
    prevOk,       \* the run before the current one returned Ok
    directory,    \* get_extension_release: the files read_dir yields, in its order
    rpc,          \* position in get_extension_release
    rret,         \* what get_extension_release returned
    check,        \* a health Check
    servicing_type, \* the ServicingType passed to Check::should_run
    ran,          \* None, or Some(result of should_run)
    wire,         \* None, or Some(mapping the Check serialized to)
    decoded,      \* None, or Some(result of deserializing the mapping)
    cmdline,      \* None when /proc/cmdline cannot be read, or Some(its words)
    epc,          \* position in eject_installation_media_smart
    ran_cmds,     \* the eject commands run so far, each with its outcome
    ejected,      \* the local `ejected` of eject_installation_media
    logged        \* the messages logged: "cdrom_warning", "manual_removal"

engineVars == <<sysexts, files, live, cache, loops, mounts, pc, existing,
                to_merge, to_unmerge, idx, error, lastExtract, torn, calls, prevOk>>
releaseVars == <<directory, rpc, rret>>
healthVars == <<check, servicing_type, ran, wire, decoded>>
ejectVars == <<cmdline, epc, ran_cmds, ejected, logged>>
vars == <<engineVars, releaseVars, healthVars, ejectVars>>

\* ------------------------------------------------- external overlay tool
\* `systemd-sysext list`: the path of the image called n, if there is one.
ListPath(f, n) ==
    IF f[ManagedPath(n)] # None THEN Some(ManagedPath(n)) ELSE None

\* `systemd-sysext refresh`: the release directory holds one release file
\* per listed image.
Refresh(f) ==
    [n \in Names |-> IF ListPath(f, n) = None THEN None ELSE f[ListPath(f, n)[1]]]

\* ------------------------------------------------------ identity extractor
\* get_extension_release: the Extension built from the descriptor, path None.
get_extension_release(img) ==
    [sysext_id |-> img.sysext_id,
     sysext_version_id |-> img.sysext_version_id,
     path |-> None,
     name |-> img.name]

\* Exit paths of get_extension_release_from_new_sysext, in source order.
ExtractOutcomes ==
    {"mkdir_failed", "losetup_failed", "mount_failed", "descriptor_failed",
     "umount_failed", "detach_failed", "ok"}

\* Loop devices still attached when the call returns through exit path o:
\* `losetup -d` is only reached, and only succeeds, on the "ok" path.
LoopsAfter(o, n) ==
    IF o \in {"mount_failed", "descriptor_failed", "umount_failed", "detach_failed"}
    THEN n + 1 ELSE n

\* Mounts still on /mnt/tmp when the call returns through exit path o.
MountsAfter(o, n) ==
    IF o \in {"descriptor_failed", "umount_failed"} THEN n + 1 ELSE n

\* ------------------------------------------------------------ diff engine
Min(S) == CHOOSE m \in S : \A k \in S : m <= k

\* find_existing_sysext matching on the name instead of the sysext_id.
find_existing_sysext_ByName(new, ex) ==
    LET M == {j \in DOMAIN ex : ex[j].name = new.name}
    IN  IF M = {} THEN None ELSE Some(ex[Min(M)])

\* find_existing_sysext: the first entry whose sysext_id equals new's
\* (Option equality, so None equals None).
find_existing_sysext(new, ex) ==
    LET M == {j \in DOMAIN ex : ex[j].sysext_id = new.sysext_id}
    IN  IF M = {} THEN None ELSE Some(ex[Min(M)])

MergeEntry(new, url) == [name |-> new.name, url |-> url]

\* The add loop forgetting to retire the old version.
DiffAdd_NoUnmerge(new, url, ex, tm, tu) ==
    LET found == find_existing_sysext(new, ex)
    IN  IF found # None
        THEN IF found[1].sysext_version_id # new.sysext_version_id
             THEN [to_merge |-> Append(tm, MergeEntry(new, url)), to_unmerge |-> tu]
             ELSE [to_merge |-> tm, to_unmerge |-> tu]
        ELSE [to_merge |-> Append(tm, MergeEntry(new, url)), to_unmerge |-> tu]

\* The add loop replacing a found entry without comparing the versions.
DiffAdd_IgnoresVersion(new, url, ex, tm, tu) ==
    LET found == find_existing_sysext(new, ex)
    IN  IF found # None
        THEN [to_merge |-> Append(tm, MergeEntry(new, url)),
              to_unmerge |-> Append(tu, found[1])]
        ELSE [to_merge |-> Append(tm, MergeEntry(new, url)), to_unmerge |-> tu]

\* Body of the `for sysext in to_add` loop after a successful extraction.
DiffAdd(new, url, ex, tm, tu) ==
    LET found == find_existing_sysext(new, ex)
    IN  IF found # None
        THEN IF found[1].sysext_version_id # new.sysext_version_id
             THEN [to_merge |-> Append(tm, MergeEntry(new, url)),
                   to_unmerge |-> Append(tu, found[1])]
             ELSE [to_merge |-> tm, to_unmerge |-> tu]
        ELSE [to_merge |-> Append(tm, MergeEntry(new, url)), to_unmerge |-> tu]

\* The remove loop with the add loop's version test copied into it.
DiffRemove_OnlyOnVersionChange(new, ex, tm, tu) ==
    LET found == find_existing_sysext(new, ex)
    IN  IF found # None /\ found[1].sysext_version_id # new.sysext_version_id
        THEN [to_merge |-> tm, to_unmerge |-> Append(tu, found[1])]
        ELSE [to_merge |-> tm, to_unmerge |-> tu]

\* Body of the `for sysext in to_remove` loop after a successful extraction.
DiffRemove(new, ex, tm, tu) ==
    LET found == find_existing_sysext(new, ex)
    IN  IF found # None
        THEN [to_merge |-> tm, to_unmerge |-> Append(tu, found[1])]
        ELSE [to_merge |-> tm, to_unmerge |-> tu]

\* --------------------------------------------------------- observed store
\* get_existing_sysexts succeeds when every live release file has an image
\* of its name in the `systemd-sysext list` output.
ProbeOk(f, lv) == \A n \in Names : lv[n] # None => ListPath(f, n) # None

ProbeEntry(f, lv, n) ==
    [sysext_id |-> lv[n][1].sysext_id,
     sysext_version_id |-> lv[n][1].sysext_version_id,
     path |-> ListPath(f, n),
     name |-> n]

\* Results of get_existing_sysexts: one entry per live release file, in the
\* order read_dir yields them, which is unspecified.
ProbeResults(f, lv) ==
    LET L == {n \in Names : lv[n] # None}
    IN  {s \in [1..Cardinality(L) -> {ProbeEntry(f, lv, n) : n \in L}] :
            \A j, k \in DOMAIN s : j # k => s[j] # s[k]}

\* ------------------------------------------------------- control flow
Add == sysexts[1].add
Remove == sysexts[1].remove

AfterMerge(tu) == IF Len(tu) > 0 THEN "unmerge" ELSE "refresh"
\* A run that starts its removals before its copies.
AfterDiffRemove_RemovesFirst(tm, tu) ==
    IF Len(tu) > 0 THEN "unmerge" ELSE IF Len(tm) > 0 THEN "merge" ELSE "refresh"
AfterDiffRemove(tm, tu) == IF Len(tm) > 0 THEN "merge" ELSE AfterMerge(tu)
AfterDiffAdd(tm, tu) == IF Len(Remove) > 0 THEN "diff_remove" ELSE AfterDiffRemove(tm, tu)
AfterLoad == IF Len(Add) > 0 THEN "diff_add" ELSE AfterDiffAdd(<<>>, <<>>)

Fail(step) == /\ pc' = "done"
              /\ error' = step

\* Calls of get_existing_sysexts, fs::copy, fs::remove_file and
\* `systemd-sysext refresh` made so far by the run.
NoCalls == [probe |-> 0, copy |-> 0, remove |-> 0, refresh |-> 0]
Called(c, kind) == [c EXCEPT ![kind] = c[kind] + 1]

\* ------------------------------------------------------------------ Init
UniqueIds(s) ==
    \A j, k \in DOMAIN s :
        (j # k /\ s[j].sysext_id # None) => s[j].sysext_id # s[k].sysext_id

\* Hosts before the first run: image files named after their release file,
\* no two with the same sysext_id, all merged.
InitialFiles ==
    {f \in [Paths -> {None} \cup {Some(i) : i \in Images}] :
        /\ \A n \in Names : f[ManagedPath(n)] # None => f[ManagedPath(n)][1].name = n
        /\ \A p, q \in Paths :
              (p # q /\ f[p] # None /\ f[q] # None /\ f[p][1].sysext_id # None)
                  => f[p][1].sysext_id # f[q][1].sysext_id}

DesiredStates ==
    {Some([add |-> a, remove |-> r]) :
        a \in SeqsUpTo(Images, MaxDesired), r \in SeqsUpTo(Images, MaxDesired)}

\* get_extension_release and the health checks not in use.
ReleaseAtRest ==
    /\ directory = <<>>
    /\ rpc = "rest"
    /\ rret = [status |-> "none", ext |-> None]

EjectAtRest ==
    /\ cmdline = None
    /\ epc = "rest"
    /\ ran_cmds = <<>>
    /\ ejected = FALSE
    /\ logged = {}

HealthAtRest ==
    /\ check = [variant |-> "none"]
    /\ servicing_type = "none"
    /\ ran = None
    /\ wire = None
    /\ decoded = None

Init ==
    /\ sysexts \in {None} \cup
          {d \in DesiredStates : Len(d[1].add) + Len(d[1].remove) <= MaxDesired}
    /\ files \in InitialFiles
    /\ live = Refresh(files)
    /\ cache = None
    /\ loops = 0
    /\ mounts = 0
    /\ pc = "idle"
    /\ existing = <<>>
    /\ to_merge = <<>>
    /\ to_unmerge = <<>>
    /\ idx = 1
    /\ error = "none"
    /\ lastExtract = "none"
    /\ torn = FALSE
    /\ calls = NoCalls
    /\ prevOk = FALSE
    /\ ReleaseAtRest
    /\ HealthAtRest
    /\ EjectAtRest

\* --------------------------------------------------------------- actions
RunVarsReset ==
    /\ to_merge' = <<>>
    /\ to_unmerge' = <<>>
    /\ idx' = 1
    /\ lastExtract' = "none"
    /\ prevOk' = (pc = "done" /\ error = "none")

\* install_sysexts, lines 308-311: no sysexts section, return Ok.
InstallNoSysexts ==
    /\ pc \in {"idle", "done"}
    /\ sysexts = None
    /\ pc' = "done"
    /\ error' = "none"
    /\ existing' = <<>>
    /\ calls' = NoCalls
    /\ RunVarsReset
    /\ UNCHANGED <<sysexts, files, live, cache, loops, mounts, torn>>
    /\ UNCHANGED <<releaseVars, healthVars, ejectVars>>

\* install_sysexts probing the live system on every run.
InstallLoad_AlwaysProbes ==
    /\ pc \in {"idle", "done"}
    /\ sysexts # None
    /\ RunVarsReset
    /\ \/ /\ cache # None
          /\ ~torn
          /\ ProbeOk(files, live)
          /\ \E s \in ProbeResults(files, live) : existing' = s
          /\ calls' = Called(NoCalls, "probe")
          /\ pc' = AfterLoad
          /\ error' = "none"
          /\ UNCHANGED <<cache, torn>>
       \/ /\ cache # None
          /\ calls' = NoCalls
          /\ Fail("load")
          /\ UNCHANGED <<cache, torn, existing>>
       \/ /\ cache = None
          /\ ProbeOk(files, live)
          /\ \E s \in ProbeResults(files, live) : cache' = Some(s)
          /\ torn' = TRUE
          /\ existing' = <<>>
          /\ calls' = Called(NoCalls, "probe")
          /\ pc' = "bootstrap_write"
          /\ error' = "none"
       \/ /\ cache = None
          /\ calls' = Called(NoCalls, "probe")
          /\ Fail("bootstrap")
          /\ UNCHANGED <<cache, torn, existing>>
    /\ UNCHANGED <<sysexts, files, live, loops, mounts>>
    /\ UNCHANGED <<releaseVars, healthVars, ejectVars>>

\* install_sysexts, lines 313-322, up to the first write to CACHE_PATH:
\* read the snapshot when the file exists (a truncated file does not parse),
\* otherwise probe the host and let fs::write create the file.
InstallLoad ==
    /\ pc \in {"idle", "done"}
    /\ sysexts # None
    /\ RunVarsReset
    /\ \/ /\ cache # None
          /\ ~torn
          /\ existing' = cache[1]
          /\ calls' = NoCalls
          /\ pc' = AfterLoad
          /\ error' = "none"
          /\ UNCHANGED <<cache, torn>>
       \/ /\ cache # None
          /\ calls' = NoCalls
          /\ Fail("load")
          /\ UNCHANGED <<cache, torn, existing>>
       \/ /\ cache = None
          /\ ProbeOk(files, live)
          /\ \E s \in ProbeResults(files, live) : cache' = Some(s)
          /\ torn' = TRUE
          /\ existing' = <<>>
          /\ calls' = Called(NoCalls, "probe")
          /\ pc' = "bootstrap_write"
          /\ error' = "none"
       \/ /\ cache = None
          /\ calls' = Called(NoCalls, "probe")
          /\ Fail("bootstrap")
          /\ UNCHANGED <<cache, torn, existing>>
    /\ UNCHANGED <<sysexts, files, live, loops, mounts>>
    /\ UNCHANGED <<releaseVars, healthVars, ejectVars>>

\* write_to_cache line 303 completing during the bootstrap, then the read of
\* the snapshot, lines 318-320.
BootstrapWriteStep ==
    /\ pc = "bootstrap_write"
    /\ \/ /\ torn' = FALSE
          /\ existing' = cache[1]
          /\ pc' = AfterLoad
          /\ error' = error
       \/ /\ Fail("bootstrap")
          /\ UNCHANGED <<torn, existing>>
    /\ UNCHANGED <<sysexts, files, live, cache, loops, mounts, to_merge,
                   to_unmerge, idx, lastExtract, calls, prevOk>>
    /\ UNCHANGED <<releaseVars, healthVars, ejectVars>>

\* One iteration of the add loop, lines 165-196.
DiffAddStep ==
    /\ pc = "diff_add"
    /\ \E o \in ExtractOutcomes :
          /\ LoopsAfter(o, loops) <= MaxHeld
          /\ lastExtract' = o
          /\ loops' = LoopsAfter(o, loops)
          /\ mounts' = MountsAfter(o, mounts)
          /\ IF o = "ok"
             THEN LET d == DiffAdd(get_extension_release(Add[idx]), Add[idx],
                                   existing, to_merge, to_unmerge)
                  IN  /\ to_merge' = d.to_merge
                      /\ to_unmerge' = d.to_unmerge
                      /\ error' = error
                      /\ IF idx < Len(Add)
                         THEN pc' = pc /\ idx' = idx + 1
                         ELSE pc' = AfterDiffAdd(d.to_merge, d.to_unmerge) /\ idx' = 1
             ELSE /\ Fail("extract")
                  /\ UNCHANGED <<to_merge, to_unmerge, idx>>
    /\ UNCHANGED <<sysexts, files, live, cache, existing, torn, calls, prevOk>>
    /\ UNCHANGED <<releaseVars, healthVars, ejectVars>>

\* One iteration of the remove loop, lines 199-225.
DiffRemoveStep ==
    /\ pc = "diff_remove"
    /\ \E o \in ExtractOutcomes :
          /\ LoopsAfter(o, loops) <= MaxHeld
          /\ lastExtract' = o
          /\ loops' = LoopsAfter(o, loops)
          /\ mounts' = MountsAfter(o, mounts)
          /\ IF o = "ok"
             THEN LET d == DiffRemove(get_extension_release(Remove[idx]),
                                      existing, to_merge, to_unmerge)
                  IN  /\ to_merge' = d.to_merge
                      /\ to_unmerge' = d.to_unmerge
                      /\ error' = error
                      /\ IF idx < Len(Remove)
                         THEN pc' = pc /\ idx' = idx + 1
                         ELSE pc' = AfterDiffRemove(d.to_merge, d.to_unmerge) /\ idx' = 1
             ELSE /\ Fail("extract")
                  /\ UNCHANGED <<to_merge, to_unmerge, idx>>
    /\ UNCHANGED <<sysexts, files, live, cache, existing, torn, calls, prevOk>>
    /\ UNCHANGED <<releaseVars, healthVars, ejectVars>>

\* The merge loop calling `systemd-sysext refresh` after each copy.
MergeStep_RefreshPerEntry ==
    /\ pc = "merge"
    /\ calls' = Called(Called(calls, "copy"), "refresh")
    /\ \/ /\ files' = [files EXCEPT ![ManagedPath(to_merge[idx].name)] =
                                        Some(to_merge[idx].url)]
          /\ live' = Refresh(files')
          /\ error' = error
          /\ IF idx < Len(to_merge)
             THEN pc' = pc /\ idx' = idx + 1
             ELSE pc' = AfterMerge(to_unmerge) /\ idx' = 1
       \/ /\ Fail("copy")
          /\ UNCHANGED <<files, live, idx>>
    /\ UNCHANGED <<sysexts, cache, loops, mounts, existing, to_merge,
                   to_unmerge, lastExtract, torn, prevOk>>
    /\ UNCHANGED <<releaseVars, healthVars, ejectVars>>

\* A merge loop that deletes the images it has copied when a copy fails.
MergeStep_RollsBack ==
    /\ pc = "merge"
    /\ calls' = Called(calls, "copy")
    /\ \/ /\ files' = [files EXCEPT ![ManagedPath(to_merge[idx].name)] =
                                        Some(to_merge[idx].url)]
          /\ error' = error
          /\ IF idx < Len(to_merge)
             THEN pc' = pc /\ idx' = idx + 1
             ELSE pc' = AfterMerge(to_unmerge) /\ idx' = 1
       \/ /\ Fail("copy")
          /\ files' = [p \in DOMAIN files |->
                         IF \E j \in 1..(idx - 1) : p = ManagedPath(to_merge[j].name)
                         THEN None ELSE files[p]]
          /\ idx' = idx
    /\ UNCHANGED <<sysexts, live, cache, loops, mounts, existing, to_merge,
                   to_unmerge, lastExtract, torn, prevOk>>
    /\ UNCHANGED <<releaseVars, healthVars, ejectVars>>

\* One iteration of the merge loop, lines 330-350: copy the image to
\* /var/lib/extensions/<name>.raw, overwriting what is there.
MergeStep ==
    /\ pc = "merge"
    /\ calls' = Called(calls, "copy")
    /\ \/ /\ files' = [files EXCEPT ![ManagedPath(to_merge[idx].name)] =
                                        Some(to_merge[idx].url)]
          /\ error' = error
          /\ IF idx < Len(to_merge)
             THEN pc' = pc /\ idx' = idx + 1
             ELSE pc' = AfterMerge(to_unmerge) /\ idx' = 1
       \/ /\ Fail("copy")
          /\ UNCHANGED <<files, idx>>
    /\ UNCHANGED <<sysexts, live, cache, loops, mounts, existing, to_merge,
                   to_unmerge, lastExtract, torn, prevOk>>
    /\ UNCHANGED <<releaseVars, healthVars, ejectVars>>

\* One iteration of the unmerge loop, lines 353-358: remove the file at the
\* entry's path; a missing path or a missing file is an error.
UnmergeStep ==
    /\ pc = "unmerge"
    /\ LET p == to_unmerge[idx].path
       IN  \/ /\ p = None
              /\ Fail("no_path")
              /\ UNCHANGED <<files, idx, calls>>
           \/ /\ p # None
              /\ files[p[1]] # None
              /\ files' = [files EXCEPT ![p[1]] = None]
              /\ calls' = Called(calls, "remove")
              /\ error' = error
              /\ IF idx < Len(to_unmerge)
                 THEN pc' = pc /\ idx' = idx + 1
                 ELSE pc' = "refresh" /\ idx' = 1
           \/ /\ p # None
              /\ Fail("remove")
              /\ calls' = Called(calls, "remove")
              /\ UNCHANGED <<files, idx>>
    /\ UNCHANGED <<sysexts, live, cache, loops, mounts, existing, to_merge,
                   to_unmerge, lastExtract, torn, prevOk>>
    /\ UNCHANGED <<releaseVars, healthVars, ejectVars>>

\* `systemd-sysext refresh`, lines 361-364.
RefreshStep ==
    /\ pc = "refresh"
    /\ calls' = Called(calls, "refresh")
    /\ \/ /\ live' = Refresh(files)
          /\ pc' = "save"
          /\ error' = error
       \/ /\ Fail("refresh")
          /\ live' = live
    /\ UNCHANGED <<sysexts, files, cache, loops, mounts, existing, to_merge,
                   to_unmerge, idx, lastExtract, torn, prevOk>>
    /\ UNCHANGED <<releaseVars, healthVars, ejectVars>>

\* write_to_cache saving a patched copy of the loaded snapshot.
WriteCacheStep_PatchesOld ==
    /\ pc = "save"
    /\ calls' = calls
    /\ \/ /\ LET kept == SelectSeq(existing, LAMBDA e : e \notin Range(to_unmerge))
                 added == [j \in DOMAIN to_merge |->
                             [sysext_id |-> to_merge[j].url.sysext_id,
                              sysext_version_id |-> to_merge[j].url.sysext_version_id,
                              path |-> Some(ManagedPath(to_merge[j].name)),
                              name |-> to_merge[j].name]]
             IN  cache' = Some(kept \o added)
          /\ torn' = TRUE
          /\ pc' = "save_write"
          /\ error' = error
       \/ /\ Fail("save")
          /\ UNCHANGED <<cache, torn>>
    /\ UNCHANGED <<sysexts, files, live, loops, mounts, existing, to_merge,
                   to_unmerge, idx, lastExtract, prevOk>>
    /\ UNCHANGED <<releaseVars, healthVars, ejectVars>>

\* write_to_cache at the end of the run, lines 366-367, up to the point
\* where fs::write has truncated CACHE_PATH.
WriteCacheStep ==
    /\ pc = "save"
    /\ calls' = Called(calls, "probe")
    /\ \/ /\ ProbeOk(files, live)
          /\ \E s \in ProbeResults(files, live) : cache' = Some(s)
          /\ torn' = TRUE
          /\ pc' = "save_write"
          /\ error' = error
       \/ /\ Fail("save")
          /\ UNCHANGED <<cache, torn>>
    /\ UNCHANGED <<sysexts, files, live, loops, mounts, existing, to_merge,
                   to_unmerge, idx, lastExtract, prevOk>>
    /\ UNCHANGED <<releaseVars, healthVars, ejectVars>>

\* fs::write completing (or failing half-way), line 303, and the return of
\* install_sysexts, line 369.
WriteCacheEndStep ==
    /\ pc = "save_write"
    /\ \/ /\ torn' = FALSE
          /\ pc' = "done"
          /\ error' = "none"
       \/ /\ Fail("save")
          /\ torn' = torn
    /\ UNCHANGED <<sysexts, files, live, cache, loops, mounts, existing, to_merge,
                   to_unmerge, idx, lastExtract, calls, prevOk>>
    /\ UNCHANGED <<releaseVars, healthVars, ejectVars>>

Next ==
    \/ InstallNoSysexts
    \/ InstallLoad
    \/ BootstrapWriteStep
    \/ DiffAddStep
    \/ DiffRemoveStep
    \/ MergeStep
    \/ UnmergeStep
    \/ RefreshStep
    \/ WriteCacheStep
    \/ WriteCacheEndStep

Spec == Init /\ [][Next]_vars

TypeOK ==
    /\ pc \in {"idle", "bootstrap_write", "diff_add", "diff_remove", "merge",
               "unmerge", "refresh", "save", "save_write", "done"}
    /\ torn \in BOOLEAN
    /\ prevOk \in BOOLEAN
    /\ loops \in 0..MaxHeld
    /\ mounts \in 0..loops

\* ------------------------------------------------- runs that are retried
\* The step taken did not return an error from install_sysexts.
StepSucceeds == ~(pc' = "done" /\ error' # "none")

\* The engine is run again and again, and no step keeps failing whenever
\* it could succeed: a step fails for ever only if it cannot succeed.
RetryFairness ==
    /\ WF_vars(Next)
    /\ SF_vars(InstallLoad /\ StepSucceeds)
    /\ SF_vars(BootstrapWriteStep /\ StepSucceeds)
    /\ \A i \in 1..MaxDesired :
          /\ SF_vars(DiffAddStep /\ StepSucceeds /\ idx = i)
          /\ SF_vars(DiffRemoveStep /\ StepSucceeds /\ idx = i)
          /\ SF_vars(MergeStep /\ StepSucceeds /\ idx = i)
          /\ SF_vars(UnmergeStep /\ StepSucceeds /\ idx = i)
    /\ SF_vars(RefreshStep /\ StepSucceeds)
    /\ SF_vars(WriteCacheStep /\ StepSucceeds)
    /\ SF_vars(WriteCacheEndStep /\ StepSucceeds)

\* A host with two merged extensions, one of them without SYSEXT_ID; the
\* desired state removes both, or adds one image, or is empty or absent.
RetryInit ==
    /\ Init
    /\ files[ManagedPath("a")] = Some(Img("a", Some("X"), "1"))
    /\ files[ManagedPath("b")] = Some(Img("b", None, "1"))
    /\ sysexts # None =>
          \/ Add = <<>> /\ Remove = <<Img("a", Some("X"), "1"), Img("b", None, "1")>>
          \/ Len(Add) <= 1 /\ Remove = <<>>

RetrySpec == RetryInit /\ [][Next]_vars /\ RetryFairness

\* ------------------------------------------- get_extension_release alone
MaxPathLen == 3      \* tokens in the path of a descriptor file
MaxFiles == 2        \* files in an extension-release.d directory

\* A path is a sequence of tokens: the marker, or text that holds no marker.
Marker == "extension-release."
PathTokens == {Marker, "a"}
DescriptorPaths == SeqsUpTo(PathTokens, MaxPathLen) \ {<<>>}

\* A file of the directory: its path and the SYSEXT_ID its content gives.
DescriptorFiles == [path : DescriptorPaths, sysext_id : SysextIds]
Directories == SeqsUpTo(DescriptorFiles, MaxFiles)

\* path.display().to_string().split("extension-release.").last(), lines
\* 107-111: the piece after the last marker, the whole string when there is
\* no marker; split yields at least one piece, so last() is never None.
file_name(path) ==
    LET at == {j \in DOMAIN path : path[j] = Marker}
    IN  IF at = {} THEN path
        ELSE SubSeq(path, (CHOOSE j \in at : \A k \in at : k <= j) + 1, Len(path))

Returned(status, ext) == [status |-> status, ext |-> ext]

\* The engine not in use, for the specifications of single functions.
EngineAtRest ==
    /\ sysexts = None
    /\ files = [p \in Paths |-> None]
    /\ live = Refresh(files)
    /\ cache = None
    /\ loops = 0
    /\ mounts = 0
    /\ pc = "idle"
    /\ existing = <<>>
    /\ to_merge = <<>>
    /\ to_unmerge = <<>>
    /\ idx = 1
    /\ error = "none"
    /\ lastExtract = "none"
    /\ torn = FALSE
    /\ calls = NoCalls
    /\ prevOk = FALSE

ReleaseInit ==
    /\ EngineAtRest
    /\ HealthAtRest
    /\ EjectAtRest
    /\ directory \in Directories
    /\ rpc = "call"
    /\ rret = Returned("none", None)

\* fs::read_dir and the collect of its entries, lines 92-94.
ReadDirStep ==
    /\ rpc = "call"
    /\ \/ rpc' = "listed" /\ rret' = rret
       \/ rpc' = "returned" /\ rret' = Returned("err", None)
    /\ UNCHANGED <<directory, engineVars, healthVars, ejectVars>>

\* `&files[0]`, line 97, then the read and the parse of that file, lines
\* 100-106: indexing an empty Vec panics.
FirstFileStep ==
    /\ rpc = "listed"
    /\ IF Len(directory) = 0
       THEN rpc' = "returned" /\ rret' = Returned("panic", None)
       ELSE \/ rpc' = "parsed" /\ rret' = rret
            \/ rpc' = "returned" /\ rret' = Returned("err", None)
    /\ UNCHANGED <<directory, engineVars, healthVars, ejectVars>>

\* The name and the Extension returned, lines 107-130.
NameStep ==
    /\ rpc = "parsed"
    /\ rpc' = "returned"
    /\ rret' = Returned("ok", Some([sysext_id |-> directory[1].sysext_id,
                                    path |-> None,
                                    name |-> file_name(directory[1].path)]))
    /\ UNCHANGED <<directory, engineVars, healthVars, ejectVars>>

ReleaseNext ==
    \/ ReadDirStep
    \/ FirstFileStep
    \/ NameStep

ReleaseSpec == ReleaseInit /\ [][ReleaseNext]_vars

\* ------------------------------------------------------- health checks
MaxServices == 1     \* entries of a SystemdCheck's systemd_services

ServicingTypes == {"AbUpdate", "CleanInstall"}
CheckNames == {"", "test"}

\* Check::Script: of the Script struct the name and the run_on list.
Scripts == [variant : {"Script"}, name : CheckNames,
            run_on : {<<>>, <<"AbUpdate">>}]

\* Check::SystemdCheck, lines 89-100.
SystemdChecks == [variant : {"SystemdCheck"}, name : CheckNames,
                  systemd_services : SeqsUpTo({"test-service"}, MaxServices),
                  timeout_seconds : {0, 60}]

Checks == Scripts \cup SystemdChecks

\* A should_run that consults the script's run_on list.
should_run_HonoursRunOn(c, st) ==
    IF c.variant = "Script" THEN st \in Range(c.run_on) ELSE st = "AbUpdate"

\* Check::should_run, lines 41-43.
should_run(c, st) == st = "AbUpdate"

Ok(v) == [status |-> "ok", value |-> Some(v)]
Err == [status |-> "err", value |-> None]

\* A mapping is a function from the keys present to their values.
EmptyMapping == [k \in {} |-> None]
Entry(present, key, value) == IF present THEN key :> value ELSE EmptyMapping

\* derive(Serialize) of SystemdCheck, lines 86-100: camelCase keys, an
\* empty name and an empty systemd_services are skipped.
SerializeSystemdCheck(c) ==
    Entry(c.name # "", "name", c.name)
        @@ Entry(c.systemd_services # <<>>, "systemdServices", c.systemd_services)
        @@ Entry(TRUE, "timeoutSeconds", c.timeout_seconds)

\* Serialization of a Script, which is the Script struct's own.
SerializeScript(c) ==
    Entry(TRUE, "name", c.name) @@ Entry(TRUE, "runOn", c.run_on)

\* impl Serialize for Check, lines 73-83: the variant's mapping, no tag.
Serialize(c) ==
    IF c.variant = "Script" THEN SerializeScript(c) ELSE SerializeSystemdCheck(c)

\* derive(Deserialize) of SystemdCheck, lines 86-100: unknown keys are
\* denied and, no field having a default, each of the three is required.
DeserializeSystemdCheck(m) ==
    IF DOMAIN m = {"name", "systemdServices", "timeoutSeconds"}
    THEN Ok([variant |-> "SystemdCheck", name |-> m["name"],
             systemd_services |-> m["systemdServices"],
             timeout_seconds |-> m["timeoutSeconds"]])
    ELSE Err

\* Deserialization of a Script, which is the Script struct's own: what a
\* Script serialized to gives that Script back; for any other mapping the
\* outcome is an error or some Script.
DeserializeScript(m) ==
    IF DOMAIN m = {"name", "runOn"}
    THEN {Ok([variant |-> "Script", name |-> m["name"], run_on |-> m["runOn"]])}
    ELSE {Err} \cup {Ok(s) : s \in Scripts}

\* impl Deserialize for Check, lines 49-72: SystemdCheck exactly when the
\* mapping has the key systemdServices, Script otherwise.
Deserialize(m) ==
    IF "systemdServices" \in DOMAIN m
    THEN {DeserializeSystemdCheck(m)}
    ELSE DeserializeScript(m)

HealthInit ==
    /\ EngineAtRest
    /\ ReleaseAtRest
    /\ EjectAtRest
    /\ check \in Checks
    /\ servicing_type \in ServicingTypes
    /\ ran = None
    /\ wire = None
    /\ decoded = None

\* check.should_run(servicing_type).
ShouldRunStep ==
    /\ ran = None
    /\ ran' = Some(should_run(check, servicing_type))
    /\ UNCHANGED <<check, servicing_type, wire, decoded, engineVars, releaseVars, ejectVars>>

\* serde_yaml::to_string of the check.
SerializeStep ==
    /\ wire = None
    /\ wire' = Some(Serialize(check))
    /\ UNCHANGED <<check, servicing_type, ran, decoded, engineVars, releaseVars, ejectVars>>

\* serde_yaml::from_str of what the check serialized to.
DeserializeStep ==
    /\ wire # None
    /\ decoded = None
    /\ \E r \in Deserialize(wire[1]) : decoded' = Some(r)
    /\ UNCHANGED <<check, servicing_type, ran, wire, engineVars, releaseVars, ejectVars>>

HealthNext ==
    \/ ShouldRunStep
    \/ SerializeStep
    \/ DeserializeStep

HealthSpec == HealthInit /\ [][HealthNext]_vars

\* -------------------------------------------------- installation media
MaxCmdlineLen == 2   \* words of /proc/cmdline

\* The words a command line is made of.
CmdlineWords == {"root=/dev/ram0", "root=live:LABEL=CDROM", "root=live:", "quiet"}
Cmdlines == {None} \cup {Some(c) : c \in SeqsUpTo(CmdlineWords, MaxCmdlineLen)}

\* cmdline.contains(marker): some word holds the marker as a substring.
Contains(c, marker) ==
    \E j \in DOMAIN c :
        \/ c[j] = marker
        \/ c[j] = "root=live:LABEL=CDROM" /\ marker = "root=live:"

\* A detection that looks for the live markers first.
detect_boot_type_LiveFirst(cl) ==
    IF cl = None THEN "Err"
    ELSE IF Contains(cl[1], "root=live:LABEL=CDROM") \/ Contains(cl[1], "root=live:")
         THEN "LiveCdrom"
    ELSE IF Contains(cl[1], "root=/dev/ram0") THEN "RamDisk"
    ELSE "PersistentStorage"

\* detect_boot_type, lines 19-32.
detect_boot_type(cl) ==
    IF cl = None THEN "Err"
    ELSE IF Contains(cl[1], "root=/dev/ram0") THEN "RamDisk"
    ELSE IF Contains(cl[1], "root=live:LABEL=CDROM") \/ Contains(cl[1], "root=live:")
         THEN "LiveCdrom"
    ELSE "PersistentStorage"

\* eject_commands, lines 60-68.
EjectCommands ==
    <<"eject --cdrom --force", "eject /dev/sr0", "eject /dev/cdrom", "eject --cdrom">>

\* What Command::output gives: a successful exit status, another exit
\* status, or an error of the spawn.
CommandOutcomes == {"success", "exit_failure", "spawn_error"}

EjectInit ==
    /\ EngineAtRest
    /\ ReleaseAtRest
    /\ HealthAtRest
    /\ cmdline \in Cmdlines
    /\ epc = "start"
    /\ ran_cmds = <<>>
    /\ ejected = FALSE
    /\ logged = {}

\* eject_installation_media_smart, lines 35-53.
SmartStep ==
    /\ epc = "start"
    /\ LET boot == detect_boot_type(cmdline)
       IN  \/ /\ boot = "RamDisk"
              /\ epc' = "eject"
              /\ logged' = logged
           \/ /\ boot = "LiveCdrom"
              /\ epc' = "done"
              /\ logged' = logged \cup {"cdrom_warning"}
           \/ /\ boot = "PersistentStorage"
              /\ epc' = "done"
              /\ logged' = logged
           \/ /\ boot = "Err"
              /\ epc' = "done"
              /\ logged' = logged \cup {"manual_removal"}
    /\ UNCHANGED <<cmdline, ran_cmds, ejected, engineVars, releaseVars, healthVars>>

\* One iteration of the loop of eject_installation_media, lines 72-96.
EjectCommandStep ==
    /\ epc = "eject"
    /\ Len(ran_cmds) < Len(EjectCommands)
    /\ \E o \in CommandOutcomes :
          /\ ran_cmds' = Append(ran_cmds,
                                [cmd |-> EjectCommands[Len(ran_cmds) + 1], outcome |-> o])
          /\ ejected' = (o = "success")
          /\ epc' = IF o = "success" \/ Len(ran_cmds) + 1 = Len(EjectCommands)
                    THEN "after_loop" ELSE "eject"
    /\ UNCHANGED <<cmdline, logged, engineVars, releaseVars, healthVars>>

\* After the loop, lines 98-101.
EjectEndStep ==
    /\ epc = "after_loop"
    /\ epc' = "done"
    /\ logged' = IF ejected THEN logged ELSE logged \cup {"manual_removal"}
    /\ UNCHANGED <<cmdline, ran_cmds, ejected, engineVars, releaseVars, healthVars>>

EjectNext ==
    \/ SmartStep
    \/ EjectCommandStep
    \/ EjectEndStep

EjectSpec == EjectInit /\ [][EjectNext]_vars

\* ------------------------------------------------------------ properties
\* The diff of the current run has returned Ok and its plans are final.
DiffReturned == pc \in {"merge", "unmerge", "refresh", "save"}

HasSysexts == sysexts # None

\* C1: an extraction whose descriptor step failed returns with the loop
\* device and the mount it acquired released: the call leaves the number of
\* attached loop devices and of mounts on the scratch point as it found them.
C1_DescriptorFailureReleases ==
    [][lastExtract' = "descriptor_failed" => (loops' = loops /\ mounts' = mounts)]_vars

\* C2: on the exit paths through a failed mount or a failed unmount the loop
\* device attached by the call is detached before the error is returned, so
\* the engine holds as many loop devices after the call as before it.
C2_LoopDetachedOnEveryExit ==
    [][lastExtract' \in {"mount_failed", "umount_failed"} => loops' = loops]_vars

\* C3: the persisted snapshot never holds two entries with the same
\* non-empty sysext_id.
C3_SnapshotIdsUnique ==
    cache # None => UniqueIds(cache[1])
\* Indices of the loaded snapshot whose sysext_id equals id.
Occ(id) == {j \in DOMAIN existing : existing[j].sysext_id = id}

RunSucceeded == pc = "done" /\ error = "none" /\ HasSysexts

\* C4: after a successful run whose single add matches an observed entry
\* with another version, the new image is at /var/lib/extensions/<name>.raw
\* and the old entry's file is gone (unless it is that very path, which then
\* holds the new image).
C4_UpdateReplacesOldImage ==
    (RunSucceeded /\ Len(Add) = 1 /\ Len(Remove) = 0 /\ Add[1].sysext_id # None) =>
        \A j \in Occ(Add[1].sysext_id) :
            existing[j].sysext_version_id # Add[1].sysext_version_id =>
                /\ files[ManagedPath(Add[1].name)] = Some(Add[1])
                /\ existing[j].path[1] # ManagedPath(Add[1].name)
                       => files[existing[j].path[1]] = None

\* C5: an identity without sysext_id matches nothing: every add without
\* sysext_id is in the merge plan, and no entry without sysext_id is ever
\* staged for unmerge.
C5_AbsentIdNeverMatches ==
    DiffReturned =>
        /\ \A k \in DOMAIN Add :
              Add[k].sysext_id = None =>
                  MergeEntry(get_extension_release(Add[k]), Add[k]) \in Range(to_merge)
        /\ \A j \in DOMAIN to_unmerge : to_unmerge[j].sysext_id # None

\* C6: the unmerge plan holds each observed entry at most once (stated for
\* the entries that carry a sysext_id).
C6_UnmergeHasNoDuplicates ==
    DiffReturned =>
        \A j, k \in DOMAIN to_unmerge :
            (j # k /\ to_unmerge[j].sysext_id # None) => to_unmerge[j] # to_unmerge[k]

\* The case of C7: one add x, no remove, x's sysext_id once in observed
\* with another version.
C7_Case ==
    /\ DiffReturned
    /\ Len(Add) = 1 /\ Len(Remove) = 0
    /\ Cardinality(Occ(Add[1].sysext_id)) = 1
    /\ \A j \in Occ(Add[1].sysext_id) :
          existing[j].sysext_version_id # Add[1].sysext_version_id

\* C7: a version-changing add yields exactly one merge (x's name and source
\* location) and exactly one unmerge (the observed entry with x's sysext_id).
C7_VersionChangeOneMergeOneUnmerge ==
    C7_Case =>
        /\ to_merge = <<[name |-> Add[1].name, url |-> Add[1]]>>
        /\ \E j \in Occ(Add[1].sysext_id) :
              to_unmerge = <<existing[j]>> /\ existing[j].path # None

C7_Witness ==
    C7_Case /\ Len(to_merge) = 1 /\ Len(to_unmerge) = 1

\* The case of C8: one add x, no remove, x's sysext_id once in observed
\* with the same version.
C8_Case ==
    /\ DiffReturned
    /\ Len(Add) = 1 /\ Len(Remove) = 0
    /\ Cardinality(Occ(Add[1].sysext_id)) = 1
    /\ \A j \in Occ(Add[1].sysext_id) :
          existing[j].sysext_version_id = Add[1].sysext_version_id

\* C8: re-adding an observed sysext_id at its observed version stages
\* nothing, whatever the names are.
C8_SameVersionIsNoOp ==
    C8_Case => (to_merge = <<>> /\ to_unmerge = <<>>)

C8_Witness ==
    C8_Case /\ \A j \in Occ(Add[1].sysext_id) : existing[j].name # Add[1].name

\* The case of C9: no add, one remove x.
C9_Case ==
    /\ HasSysexts
    /\ Len(Add) = 0 /\ Len(Remove) = 1

\* C9: removing x stages exactly the observed entry with x's sysext_id and
\* merges nothing; when no observed entry has it, nothing is staged; and once
\* x's identity is extracted the diff does not return an error.
C9_RemoveByIdOrWarn ==
    C9_Case =>
        /\ DiffReturned =>
              /\ to_merge = <<>>
              /\ IF Occ(Remove[1].sysext_id) = {}
                 THEN to_unmerge = <<>>
                 ELSE \E j \in Occ(Remove[1].sysext_id) : to_unmerge = <<existing[j]>>
        /\ lastExtract = "ok" => (pc # "diff_remove" /\ error # "extract")

C9_Witness ==
    /\ C9_Case
    /\ DiffReturned
    /\ lastExtract = "ok"
    /\ Occ(Remove[1].sysext_id) = {}
    /\ \E j \in DOMAIN existing : existing[j].name = Remove[1].name

\* The case of C10: X observed once at version V, added at V and removed.
C10_Case ==
    /\ DiffReturned
    /\ Len(Add) = 1 /\ Len(Remove) = 1
    /\ Add[1].sysext_id = Remove[1].sysext_id
    /\ Cardinality(Occ(Add[1].sysext_id)) = 1
    /\ \A j \in Occ(Add[1].sysext_id) :
          existing[j].sysext_version_id = Add[1].sysext_version_id

\* C10: adding and removing the same key in one desired state: the remove
\* wins, one unmerge (the observed entry) and no merge.
C10_RemoveWinsOverAdd ==
    C10_Case =>
        /\ to_merge = <<>>
        /\ \E j \in Occ(Add[1].sysext_id) : to_unmerge = <<existing[j]>>

C10_Witness ==
    /\ C10_Case
    /\ Len(to_unmerge) = 1
    /\ Remove[1].sysext_version_id = Add[1].sysext_version_id

\* C11: a run with a sysexts section invokes the refresh at most once; never
\* before the last copy and the last removal; once when every copy and
\* removal succeeded; and not at all when the load, an extraction, a copy or
\* a removal failed.
C11_RefreshOnceAfterMutations ==
    HasSysexts =>
        /\ calls.refresh <= 1
        /\ calls.refresh = 1 =>
              (calls.copy = Len(to_merge) /\ calls.remove = Len(to_unmerge))
        /\ pc \in {"bootstrap_write", "diff_add", "diff_remove", "merge",
                   "unmerge", "refresh"} => calls.refresh = 0
        /\ (pc \in {"save", "save_write"}
               \/ (pc = "done" /\ error \in {"none", "refresh", "save"}))
              => calls.refresh = 1
        /\ error \in {"bootstrap", "load", "extract", "copy", "no_path", "remove"}
              => calls.refresh = 0

C11_Witness ==
    /\ RunSucceeded
    /\ calls.refresh = 1
    /\ calls.copy + calls.remove >= 2

\* The entry a probe builds for the live release file of name n.
C12_LiveEntry(n) ==
    [sysext_id |-> live[n][1].sysext_id,
     sysext_version_id |-> live[n][1].sysext_version_id,
     path |-> Some(ManagedPath(n)),
     name |-> n]

\* C12: after a successful run the snapshot file is complete and holds
\* exactly one entry per release file of the live directory as the refresh
\* left it, each with the path of its image.
C12_SnapshotIsFreshProbe ==
    RunSucceeded =>
        /\ cache # None /\ ~torn
        /\ \A n \in Names : live[n] = files[ManagedPath(n)]
        /\ Len(cache[1]) = Cardinality({n \in Names : live[n] # None})
        /\ \A n \in Names :
              live[n] # None => \E j \in DOMAIN cache[1] : cache[1][j] = C12_LiveEntry(n)

\* Scenario B: nothing observed, one add, one entry for it afterwards.
C12_Witness ==
    /\ RunSucceeded
    /\ existing = <<>>
    /\ Len(Add) = 1 /\ Len(Remove) = 0
    /\ Len(cache[1]) = 1
    /\ cache[1][1].sysext_id = Add[1].sysext_id

\* C13: a run that finds the snapshot file reads it as the observed state
\* without probing the live system and without touching the file; a run
\* that does not find it probes once, persists the result and reads that
\* same result back as the observed state; the diff works on that state.
C13_BaselineFromSnapshot ==
    [][/\ (pc \in {"idle", "done"} /\ HasSysexts /\ cache # None /\ pc' # "done")
           => (existing' = cache[1] /\ cache' = cache /\ calls'.probe = 0)
       /\ (pc \in {"idle", "done"} /\ HasSysexts /\ cache = None /\ pc' # "done")
           => /\ pc' = "bootstrap_write"
              /\ calls'.probe = 1
              /\ cache' # None
              /\ Len(cache'[1]) = Cardinality({n \in Names : live[n] # None})
       /\ (pc = "bootstrap_write" /\ pc' # "done")
           => (existing' = cache[1] /\ cache' = cache /\ ~torn' /\ calls'.probe = 1)
       /\ pc \in {"diff_add", "diff_remove"}
           => (existing' = existing /\ cache' = cache /\ calls'.probe = calls.probe)
      ]_vars

\* A diff running on a non-empty observed state loaded without a probe.
C13_Witness ==
    /\ pc = "diff_add"
    /\ calls.probe = 0
    /\ existing # <<>>
    /\ existing = cache[1]

\* C14: the snapshot file, whenever it exists, holds a complete snapshot
\* (the previous one or the new one), never an empty or partial content;
\* this is what a reader at any instant of a write_to_cache call observes.
C14_SnapshotWriteAtomic ==
    cache # None => ~torn

\* C15: a run that follows a successful run with the same desired state
\* attempts no copy and no removal, and writes back the entries it loaded;
\* stated for the desired states that add and remove one and the same
\* image, which carries a sysext_id.
C15_SecondRunIsNoOp ==
    (prevOk /\ HasSysexts
        /\ Len(Add) = 1 /\ Len(Remove) = 1
        /\ Add[1] = Remove[1] /\ Add[1].sysext_id # None) =>
        /\ calls.copy = 0
        /\ calls.remove = 0
        /\ (pc = "save_write" \/ RunSucceeded) => Range(cache[1]) = Range(existing)

\* The last merge before the failing one (the idx-th) written to the path
\* of merge j.
C18_LastCopyTo(j) ==
    CHOOSE m \in 1..(idx - 1) :
        /\ to_merge[m].name = to_merge[j].name
        /\ \A m2 \in 1..(idx - 1) : to_merge[m2].name = to_merge[j].name => m2 <= m

\* C18: when the idx-th copy of the merge plan fails the run has returned
\* that error, every earlier copy is still in the managed directory, no
\* removal and no refresh has been attempted, and the snapshot file is the
\* complete snapshot the run loaded.
C18_CopyFailureAbortsWithoutRollback ==
    (HasSysexts /\ error = "copy") =>
        /\ pc = "done"
        /\ calls.copy = idx
        /\ \A j \in 1..(idx - 1) :
              files[ManagedPath(to_merge[j].name)] = Some(to_merge[C18_LastCopyTo(j)].url)
        /\ calls.remove = 0
        /\ calls.refresh = 0
        /\ cache = Some(existing) /\ ~torn

\* The second of two copies failed with a removal still planned.
C18_Witness ==
    /\ HasSysexts /\ error = "copy"
    /\ idx = 2
    /\ Len(to_unmerge) > 0

\* C16: get_extension_release on a directory that holds no descriptor file
\* or more than one returns an error: it does not panic and does not
\* return the identity of one of the files.
C16_RequiresExactlyOneDescriptor ==
    (rpc = "returned" /\ Len(directory) # 1) => rret.status = "err"

C20_SystemdCheckRoundTrips ==
    (check.variant = "SystemdCheck" /\ decoded # None) => decoded[1] = Ok(check)

\* The snapshot file is the complete snapshot the run loaded.
C21_SnapshotAsLoaded == cache = Some(existing) /\ ~torn

\* C21: in every run the identities of all desired images are extracted
\* before the first copy, every copy of the merge plan is made before the
\* first removal, every removal before the refresh, and the snapshot file
\* is written again only once the refresh has succeeded.
C21_StepsInFixedOrder ==
    HasSysexts =>
        /\ pc \in {"diff_add", "diff_remove"} =>
              (calls.copy = 0 /\ calls.remove = 0 /\ calls.refresh = 0
                  /\ C21_SnapshotAsLoaded)
        /\ pc = "merge" =>
              (calls.copy = idx - 1 /\ calls.remove = 0 /\ calls.refresh = 0
                  /\ C21_SnapshotAsLoaded)
        /\ pc = "unmerge" =>
              (calls.copy = Len(to_merge) /\ calls.remove = idx - 1
                  /\ calls.refresh = 0 /\ C21_SnapshotAsLoaded)
        /\ pc = "refresh" =>
              (calls.copy = Len(to_merge) /\ calls.remove = Len(to_unmerge)
                  /\ calls.refresh = 0 /\ C21_SnapshotAsLoaded)
        /\ pc \in {"save", "save_write"} =>
              (calls.copy = Len(to_merge) /\ calls.remove = Len(to_unmerge)
                  /\ calls.refresh = 1)
        /\ (pc = "done" /\ error \in {"extract", "copy", "no_path", "remove", "refresh"})
              => C21_SnapshotAsLoaded

\* A successful run that copied, removed, refreshed and saved.
C21_Witness ==
    /\ RunSucceeded
    /\ calls.copy >= 1
    /\ calls.remove >= 1
    /\ calls.refresh = 1

\* A run has failed at a removal after removing at least one file of an
\* unmerge plan that names no path twice.
C22_RemovalFailedPartway ==
    /\ HasSysexts
    /\ pc = "done" /\ error = "remove"
    /\ idx >= 2
    /\ \A j, k \in DOMAIN to_unmerge : j # k => to_unmerge[j].path # to_unmerge[k].path

\* C22: after a run that failed at a removal having removed at least one
\* file, a later run of the same desired state succeeds and rewrites the
\* snapshot, provided no step keeps failing when it could succeed (and
\* unless a later write has left the snapshot file half-written).
C22_RetrySucceeds == C22_RemovalFailedPartway ~> (RunSucceeded \/ torn)

\* The command line was read and holds root=/dev/ram0.
C23_RamDisk == cmdline # None /\ Contains(cmdline[1], "root=/dev/ram0")

\* C23: eject commands are run exactly when the command line holds
\* root=/dev/ram0, whatever else it holds; they are the four strategies in
\* their order, none is run after one that succeeded, and once the
\* ejection has ended the manual-removal message has been logged exactly
\* when all four have failed.
C23_EjectOnlyFromRamDisk ==
    /\ ran_cmds # <<>> => C23_RamDisk
    /\ (epc = "done" /\ C23_RamDisk) => ran_cmds # <<>>
    /\ Len(ran_cmds) <= 4
    /\ \A j \in DOMAIN ran_cmds :
          /\ ran_cmds[j].cmd = EjectCommands[j]
          /\ j < Len(ran_cmds) => ran_cmds[j].outcome # "success"
    /\ (epc = "done" /\ C23_RamDisk) =>
          /\ ran_cmds[Len(ran_cmds)].outcome = "success" \/ Len(ran_cmds) = 4
          /\ "manual_removal" \in logged
                <=> (Len(ran_cmds) = 4
                       /\ \A j \in DOMAIN ran_cmds : ran_cmds[j].outcome # "success")

\* A command line with both markers: the third strategy ejected the media.
C23_Witness ==
    /\ epc = "done"
    /\ C23_RamDisk
    /\ Contains(cmdline[1], "root=live:")
    /\ Len(ran_cmds) = 3
    /\ ejected
    /\ logged = {}
====
